---- MODULE Spec2Model ----
(***************************************************************************)
(* The OLLA benchmark harness (benchmarks.py) driving the memory-planning  *)
(* core: the Graph IR, the Simulator and the Scheduler.  The harness is    *)
(* modelled from its source; the core it calls (package olla) is modelled  *)
(* from its design description, since only its caller is at hand.          *)
(***************************************************************************)
EXTENDS Integers, Sequences, FiniteSets, TLC

\* ------------------------------------------------------------- bounds
\* Largest byte size of one tensor buffer (edge); 0 is a control edge.
MaxSize == 2
\* Most re-executions of nodes one rematerialization schedule may hold.
MaxRemat == 1
\* Most configurations (model, mode, batch size) of one sweep.
MaxConfigs == 2

\* ------------------------------------------------------- small helpers
Max2(a, b) == IF a >= b THEN a ELSE b

RECURSIVE SetMax(_)
SetMax(S) ==
  IF S = {} THEN 0
  ELSE LET x == CHOOSE y \in S : TRUE IN Max2(x, SetMax(S \ {x}))

RECURSIVE SetMin(_)
SetMin(S) ==
  LET x == CHOOSE y \in S : TRUE
  IN IF S = {x} THEN x
     ELSE LET m == SetMin(S \ {x}) IN IF x <= m THEN x ELSE m

RECURSIVE SumSizes(_)
SumSizes(E) ==
  IF E = {} THEN 0
  ELSE LET e == CHOOSE x \in E : TRUE IN e.size + SumSizes(E \ {e})

Range(s) == {s[i] : i \in 1..Len(s)}

\* The elements of a set of edges as a list, by edge id (a node's fanin and
\* fanout are ordered lists).
RECURSIVE ById(_)
ById(E) ==
  IF E = {} THEN <<>>
  ELSE LET e == CHOOSE x \in E : \A y \in E : x.id <= y.id
       IN <<e>> \o ById(E \ {e})

\* ------------------------------------------------------------ Graph IR
\* Nodes are operators; an edge is one tensor buffer with one producer
\* (src), its consumers (snks) and a byte size.
Nodes == 1..4

Fanin(g, n) == {e \in g.edges : n \in e.snks}
Fanout(g, n) == {e \in g.edges : e.src = n}

Edge(i, s, k, z) == [id |-> i, src |-> s, snks |-> k, size |-> z]

\* The graphs the importer hands over: four operators traced in the order
\* 1..4 (so every edge leads to a later node); node 1 has up to two outputs.
ImportedGraphs ==
  { [edges |-> {Edge(1, 1, k1, z1), Edge(2, 2, {3}, z2), Edge(3, 3, {4}, z3)}
               \cup (IF z4 = 0 THEN {} ELSE {Edge(4, 1, {2}, z4)}),
     time  |-> t] :
      k1 \in {{2}, {4}, {2, 4}},
      z1 \in 1..MaxSize, z2 \in 0..MaxSize, z3 \in 1..MaxSize, z4 \in 0..1,
      t \in {[n \in Nodes |-> 1], [n \in Nodes |-> IF n = 1 THEN 0 ELSE 1]} }

\* validate_timeline: every producer of a fanin edge of the node run at step
\* i has run at an earlier step.
ValidTimeline(g, sched) ==
  \A i \in 1..Len(sched) : \A e \in Fanin(g, sched[i]) :
     \E j \in 1..(i - 1) : sched[j] = e.src

Complete(sched) == Range(sched) = Nodes

Perms == {s \in [1..Cardinality(Nodes) -> Nodes] : Range(s) = Nodes}

\* Every permutation of the nodes, dependencies ignored.
OrdersUnchecked(g) == Perms

\* The topological orders of g.
Orders(g) == {s \in Perms : ValidTimeline(g, s)}

\* ----------------------------------------------------------- Simulator
\* Simulate(node_order): on visiting a node, each non-zero fanout edge
\* becomes live (its size is added to the usage), then each non-zero fanin
\* edge loses one remaining sink and is freed when none remains.  st holds
\* the usage (cur), the remaining-sink counts (rc), the peak and the
\* per-step trace.
SimVisit(g, n, st) ==
  LET outs  == {e \in Fanout(g, n) : e.size > 0}
      ins   == {e \in Fanin(g, n) : e.size > 0}
      up    == st.cur + SumSizes(outs)
      rc1   == [i \in DOMAIN st.rc \cup {e.id : e \in outs} |->
                  IF \E e \in outs : e.id = i
                  THEN Cardinality((CHOOSE e \in outs : e.id = i).snks)
                  ELSE st.rc[i]]
      rc2   == [i \in DOMAIN rc1 |->
                  IF \E e \in ins : e.id = i THEN rc1[i] - 1 ELSE rc1[i]]
      freed == {e \in ins : rc2[e.id] = 0}
  IN [cur   |-> up - SumSizes(freed),
      rc    |-> rc2,
      peak  |-> Max2(st.peak, up),
      trace |-> Append(st.trace, up)]

RECURSIVE SimWalk(_, _, _, _)
SimWalk(g, order, i, st) ==
  IF i > Len(order) THEN st
  ELSE SimWalk(g, order, i + 1, SimVisit(g, order[i], st))

Simulate(g, order) ==
  SimWalk(g, order, 1, [cur |-> 0, rc |-> <<>>, peak |-> 0, trace |-> <<>>])

\* ------------------------------------------- measure_pt_alloc_time
\* The fanout loop with every count started at one sink.
RECURSIVE FanoutLoopCountingOne(_, _, _)
FanoutLoopCountingOne(outs, k, w) ==
  IF k > Len(outs) THEN w
  ELSE LET e == outs[k]
       IN FanoutLoopCountingOne(outs, k + 1,
            IF e.size > 0
            THEN [w EXCEPT !.rc  = (e.id :> 1) @@ @,
                           !.seq = Append(@, e.id)]
            ELSE w)

\* The fanout loop of one node: every non-zero fanout edge gets its
\* reference count and its MemLoc is appended to mem_sequence.
RECURSIVE FanoutLoop(_, _, _)
FanoutLoop(outs, k, w) ==
  IF k > Len(outs) THEN w
  ELSE LET e == outs[k]
       IN FanoutLoop(outs, k + 1,
            IF e.size > 0
            THEN [w EXCEPT !.rc  = (e.id :> Cardinality(e.snks)) @@ @,
                           !.seq = Append(@, e.id)]
            ELSE w)

\* The fanin loop left out: no count drops and nothing is appended.
FaninLoopSkipped(ins, k, w) == w

\* The fanin loop of one node: zero-size edges are skipped; the count of
\* each other fanin edge drops by one and, at zero, its MemLoc is appended
\* a second time.
RECURSIVE FaninLoop(_, _, _)
FaninLoop(ins, k, w) ==
  IF k > Len(ins) THEN w
  ELSE LET e == ins[k]
       IN FaninLoop(ins, k + 1,
            IF e.size = 0 THEN w
            ELSE LET c == w.rc[e.id] - 1
                 IN [w EXCEPT !.rc[e.id] = c,
                              !.seq = IF c = 0 THEN Append(@, e.id) ELSE @])

\* One node of the walk with the two loops in the other order.
MemVisitFaninFirst(g, n, w) ==
  FanoutLoop(ById(Fanout(g, n)), 1, FaninLoop(ById(Fanin(g, n)), 1, w))

\* One node of the walk: the fanout loop, then the fanin loop.
MemVisit(g, n, w) ==
  FaninLoop(ById(Fanin(g, n)), 1, FanoutLoop(ById(Fanout(g, n)), 1, w))

RECURSIVE MemWalk(_, _, _, _)
MemWalk(g, order, i, w) ==
  IF i > Len(order) THEN w
  ELSE MemWalk(g, order, i + 1, MemVisit(g, order[i], w))

\* edge_ref_counts and mem_sequence after the walk over node_ordering.
MemSequence(g, order) == MemWalk(g, order, 1, [rc |-> <<>>, seq |-> <<>>])

SizeOf(g, i) == (CHOOSE e \in g.edges : e.id = i).size

\* One pass over mem_sequence (MemLoc.run): an op allocates its buffer when
\* it holds no address and frees it otherwise.  Returns the largest number
\* of bytes allocated at once and the buffers left allocated.
RECURSIVE RunPass(_, _, _, _, _)
RunPass(g, seq, k, held, top) ==
  IF k > Len(seq) THEN [held |-> held, top |-> top]
  ELSE LET i  == seq[k]
           h2 == IF i \in held THEN held \ {i} ELSE held \cup {i}
       IN RunPass(g, seq, k + 1, h2,
                  Max2(top, SumSizes({e \in g.edges : e.id \in h2})))

AllocPeak(g, seq) == RunPass(g, seq, 1, {}, 0).top

\* ----------------------------------------------------------- Scheduler
\* Liveness of edge e at step i of a timeline (a sequence of node
\* executions, a node may run again when rematerialized): e is live while
\* its producer runs, and from a production up to each use that no later
\* production precedes.
LiveAt(sched, e, i) ==
  \/ sched[i] = e.src
  \/ \E q \in i..Len(sched) :
        /\ sched[q] \in e.snks
        /\ \E p \in 1..i : sched[p] = e.src
        /\ \A r \in (i + 1)..(q - 1) : sched[r] # e.src

LiveSteps(sched, e) == {i \in 1..Len(sched) : LiveAt(sched, e, i)}

\* The steps at which the node that runs reads or writes e.
UseSteps(sched, e) ==
  {i \in 1..Len(sched) : sched[i] = e.src \/ sched[i] \in e.snks}

Sized(g) == {e \in g.edges : e.size > 0}

\* Memory usage per step when every live edge stays resident, and its peak.
MemAt(g, sched, i) == SumSizes({e \in Sized(g) : LiveAt(sched, e, i)})
TimelinePeak(g, sched) == SetMax({MemAt(g, sched, i) : i \in 1..Len(sched)})

\* Timelines with up to k re-executions: a topological order with nodes
\* inserted again, every execution after the producers of its inputs.
Insert(s, i, n) == SubSeq(s, 1, i - 1) \o <<n>> \o SubSeq(s, i, Len(s))

RECURSIVE RematSchedules(_, _)
RematSchedules(g, k) ==
  IF k = 0 THEN Orders(g)
  ELSE LET P == RematSchedules(g, k - 1)
           Q == UNION {{Insert(s, i, n) : i \in 1..(Len(s) + 1), n \in Nodes} :
                       s \in P}
       IN P \cup {t \in Q : ValidTimeline(g, t)}

\* Added runtime of a timeline: the time of every execution of a node after
\* its first.
RECURSIVE RematTime(_, _, _)
RematTime(g, sched, i) ==
  IF i > Len(sched) THEN 0
  ELSE (IF \E j \in 1..(i - 1) : sched[j] = sched[i]
        THEN g.time[sched[i]] ELSE 0) + RematTime(g, sched, i + 1)

\* Spilling: res[id] is the set of steps at which edge id is resident.  An
\* edge is resident whenever the running node uses it, and may be swapped
\* out at the other steps of its lifetime.
RECURSIVE ResidenciesOf(_, _)
ResidenciesOf(sched, E) ==
  IF E = {} THEN {<<>>}
  ELSE LET e == CHOOSE x \in E : TRUE
           use == UseSteps(sched, e)
       IN {(e.id :> (use \cup x)) @@ r :
             x \in SUBSET (LiveSteps(sched, e) \ use),
             r \in ResidenciesOf(sched, E \ {e})}

Residencies(g, sched) == ResidenciesOf(sched, Sized(g))

AllResident(g, sched) ==
  [i \in {e.id : e \in Sized(g)} |->
     LiveSteps(sched, CHOOSE e \in g.edges : e.id = i)]

\* Swap-out events of edge e under res: resident at a step and swapped out
\* at the next step of its lifetime.
SwapOuts(sched, e, res) ==
  {i \in res[e.id] : (i + 1) \in LiveSteps(sched, e) \ res[e.id]}

RECURSIVE SumOver(_, _)
SumOver(S, f) ==
  IF S = {} THEN 0
  ELSE LET x == CHOOSE y \in S : TRUE IN f[x] + SumOver(S \ {x}, f)

NumSpills(g, sched, res) ==
  SumOver({e.id : e \in Sized(g)},
          [i \in {e.id : e \in Sized(g)} |->
             Cardinality(SwapOuts(sched, CHOOSE e \in g.edges : e.id = i, res))])

DataSwapped(g, sched, res) ==
  SumOver({e.id : e \in Sized(g)},
          [i \in {e.id : e \in Sized(g)} |->
             SizeOf(g, i) *
             Cardinality(SwapOuts(sched, CHOOSE e \in g.edges : e.id = i, res))])

ResidentPeak(g, sched, res) ==
  SetMax({SumSizes({e \in Sized(g) : i \in res[e.id]}) : i \in 1..Len(sched)})

\* Address packing.  Two edges conflict when they are live at a common step;
\* FirstFit places the edges of lst one by one at the lowest offset that
\* keeps every conflicting pair apart (offset 0 or the end of a buffer
\* placed before).
Conflict(sched, a, b) ==
  \E i \in 1..Len(sched) : LiveAt(sched, a, i) /\ LiveAt(sched, b, i)

\* Apart, one byte short.
ApartOffByOne(oa, sa, ob, sb) == oa + sa <= ob + 1 \/ ob + sb <= oa + 1

Apart(oa, sa, ob, sb) == oa + sa <= ob \/ ob + sb <= oa

RECURSIVE FirstFit(_, _, _, _)
FirstFit(sched, lst, k, loc) ==
  IF k > Len(lst) THEN loc
  ELSE LET a == lst[k]
           placed == {lst[j] : j \in 1..(k - 1)}
           fits(o) == \A b \in placed :
                         Conflict(sched, a, b) =>
                            Apart(o, a.size, loc[b.id].offset, b.size)
           ends == {0} \cup {loc[b.id].offset + b.size : b \in placed}
           o == CHOOSE x \in ends :
                   fits(x) /\ \A y \in ends : y < x => ~fits(y)
       IN FirstFit(sched, lst, k + 1,
                   (a.id :> [offset |-> o, size |-> a.size,
                             live |-> LiveSteps(sched, a)]) @@ loc)

\* The address assignments the solver may return for a fixed timeline:
\* the packings with no free space below any buffer.
Packings(g, sched) ==
  LET E == Sized(g)
      lists == {l \in [1..Cardinality(E) -> E] : Range(l) = E}
  IN {FirstFit(sched, l, 1, <<>>) : l \in lists}

AddressExtent(loc) == SetMax({loc[i].offset + loc[i].size : i \in DOMAIN loc})

\* validate_address_allocation: no two buffers live at a common step share
\* an address.
ValidateAddressAllocation(loc) ==
  \A i, j \in DOMAIN loc :
     (i # j /\ loc[i].live \cap loc[j].live # {}) =>
        (loc[i].offset..(loc[i].offset + loc[i].size - 1))
          \cap (loc[j].offset..(loc[j].offset + loc[j].size - 1)) = {}

\* The knobs of one ComputeOptimalSchedule call.  max_spills and
\* user_schedule are <<>> when not given; mem_limit is kept in hundredths
\* of a byte (the harness passes fractions of a peak), and limited tells
\* whether one was given.
Args(swaps, spills, remat, limited, limit100, frag, user) ==
  [allow_swaps |-> swaps, max_spills |-> spills,
   allow_rematerialization |-> remat, limited |-> limited,
   mem_limit100 |-> limit100, account_for_fragmentation |-> frag,
   user_schedule |-> user]

SpillingEnabled(a) ==
  a.allow_swaps /\ (a.max_spills = <<>> \/ a.max_spills[1] > 0)

\* The timelines a call searches: the user's order when given, else the
\* topological orders, with re-executions when rematerialization is on.
Timelines(g, a) ==
  IF a.user_schedule # <<>> THEN {a.user_schedule}
  ELSE IF a.allow_rematerialization THEN RematSchedules(g, MaxRemat)
  ELSE Orders(g)

\* The residencies searched when swapping is never ruled out.
ResidencyChoicesAlways(g, sched, a) == Residencies(g, sched)

ResidencyChoices(g, sched, a) ==
  IF SpillingEnabled(a)
  THEN {r \in Residencies(g, sched) :
          a.max_spills = <<>> \/ NumSpills(g, sched, r) <= a.max_spills[1]}
  ELSE {AllResident(g, sched)}

\* Without fragmentation accounting the address assignment is the simple
\* packing in edge order; with it, any packing the solver settles on.
PackingChoices(g, sched, a) ==
  IF a.account_for_fragmentation THEN Packings(g, sched)
  ELSE {FirstFit(sched, ById(Sized(g)), 1, <<>>)}

\* The summary of a solution.  peak_mem_usage is the largest number of
\* resident bytes at a step; required_memory is the extent of the address
\* assignment when fragmentation is accounted for, and that peak otherwise.
Summary(g, sched, res, loc, a) ==
  LET peak == ResidentPeak(g, sched, res)
  IN [peak_mem_usage |-> peak,
      required_memory |->
         IF a.account_for_fragmentation THEN AddressExtent(loc) ELSE peak,
      total_data_swapped |-> DataSwapped(g, sched, res),
      rematerialization_time |-> RematTime(g, sched, 1)]

WithinLimit(a, peak) == a.limited => peak * 100 <= a.mem_limit100

Infeasible ==
  [status |-> "infeasible",
   summary |-> [peak_mem_usage |-> 0, required_memory |-> 0,
                total_data_swapped |-> 0, rematerialization_time |-> 0],
   schedule |-> <<>>, mem_loc |-> <<>>]

Raised == [Infeasible EXCEPT !.status = "raised"]

\* ComputeOptimalSchedule: the results an anytime search may return (any
\* feasible solution once the timeout strikes, the best among them
\* otherwise), or the infeasibility outcome when there is none.
ComputeOptimalSchedule(g, a) ==
  LET sols ==
        UNION {
          UNION {
            {[status |-> "ok", summary |-> Summary(g, sched, res, loc, a),
              schedule |-> sched, mem_loc |-> loc] :
                 loc \in PackingChoices(g, sched, a)} :
            res \in {r \in ResidencyChoices(g, sched, a) :
                       WithinLimit(a, ResidentPeak(g, sched, r))}} :
          sched \in Timelines(g, a)}
  IN IF sols = {} THEN {Infeasible} ELSE sols

\* ComputeMinimumMemoryRequired: the smallest budget some schedule meets
\* with rematerialization and spilling at hand.  Whatever the order, a step
\* needs the inputs and the outputs of the node it runs resident and
\* nothing else, so the floor is the largest such need over the nodes.
\* The need of a node counted on its outputs alone.
NodeNeedOutputsOnly(g, n) == SumSizes(Fanout(g, n))

NodeNeed(g, n) == SumSizes(Fanin(g, n) \cup Fanout(g, n))

ComputeMinimumMemoryRequired(g) == SetMax({NodeNeed(g, n) : n \in Nodes})

\* ------------------------------------------------------ Graph IR passes
\* canonicalize: a control edge that only repeats a dependency a tensor
\* edge of the same producer already carries is dropped.
Canonicalize(g) ==
  [g EXCEPT !.edges =
     {e \in @ : ~(e.size = 0 /\ \E f \in @ : /\ f.size > 0 /\ f.src = e.src
                                              /\ e.snks \subseteq f.snks)}]

\* constrain_weight_updates, constrain_tensor_generators: the imported
\* graphs hold no weight-update and no generator operators, and the passes
\* add nothing to them.
ConstrainWeightUpdates(g) == g
ConstrainTensorGenerators(g) == g

\* constrain_relative_ordering(node_order, linearize=True): a control edge
\* from every node of the order to the next.
ConstrainRelativeOrdering(g, order) ==
  [g EXCEPT !.edges =
     @ \cup {Edge(10 + i, order[i], {order[i + 1]}, 0) :
               i \in 1..(Len(order) - 1)}]

\* is_valid: every edge has a sink, none of them its own producer, and the
\* nodes can be ordered topologically.
IsValid(g) ==
  /\ \A e \in g.edges : e.snks # {} /\ e.src \notin e.snks
  /\ Orders(g) # {}

\* extract_node_ordering: the nodes of a schedule in execution order.
ExtractNodeOrdering(schedule) == schedule

\* validate_node_ordering: the schedule runs every node of the graph, each
\* after the producers of its inputs.
ValidateNodeOrdering(g, schedule) ==
  Complete(schedule) /\ ValidTimeline(g, schedule)

\* ------------------------------------------------------- the harness
VARIABLES
  pc,                  \* where the main loop stands in this configuration
  args,                \* the command-line switches
  graph,               \* the Graph IR of the configuration
  loaded,              \* the Graph IR as load_model returned it
  passes,              \* the normalization passes run so far
  pt_node_order,       \* the importer's original execution order
  simulated_mem_usage, \* <<v>> once bound
  mem_sequence,        \* measure_pt_alloc_time's sequence of MemLocs
  peak_mem_usage,      \* <<v>> once bound
  node_ordering,       \* the order run_node_ordering extracted
  fragmentation,       \* <<numerator, denominator>> once bound
  min_memory,          \* <<v>> once bound
  step,                \* index into the savings list of a sweep
  memory_budget,       \* the last budget handed to a sweep's run, x100
  call,                \* the last ComputeOptimalSchedule call and outcome
  result,              \* the keys of this configuration's row
  results,             \* the rows logged
  todo                 \* the configurations of the sweep not yet finished

vars == <<pc, args, graph, loaded, passes, pt_node_order, simulated_mem_usage,
          mem_sequence, peak_mem_usage, node_ordering, fragmentation,
          min_memory, step, memory_budget, call, result, results, todo>>

Savings == <<10, 25, 50, 75, 100>>

Switches ==
  [skip_simulation : BOOLEAN, skip_node_ordering : BOOLEAN,
   profile_alloc_time : BOOLEAN, generate_addresses : BOOLEAN,
   rematerialization : BOOLEAN, spilling : BOOLEAN]

\* A key of a row; a row starts with the key that names its configuration.
Key(k, s) == [key |-> k, savings |-> s]

NoCall ==
  [stage |-> "none", args |-> Args(FALSE, <<>>, FALSE, FALSE, 0, FALSE, <<>>),
   out |-> Infeasible, accepted |-> FALSE]

Init ==
  /\ pc = "load"
  /\ args \in Switches
  /\ graph \in ImportedGraphs
  /\ loaded = [edges |-> {}, time |-> [n \in Nodes |-> 0]]
  /\ passes = <<>>
  /\ pt_node_order = [i \in 1..Cardinality(Nodes) |-> i]
  /\ simulated_mem_usage = <<>>
  /\ mem_sequence = <<>>
  /\ peak_mem_usage = <<>>
  /\ node_ordering = <<>>
  /\ fragmentation = <<>>
  /\ min_memory = <<>>
  /\ step = 0
  /\ memory_budget = <<>>
  /\ call = NoCall
  /\ result = {Key("model", 1)}
  /\ results = <<>>
  /\ todo = <<1>>

\* load_model: the three normalization passes, once each, then is_valid.
LoadModel ==
  /\ pc = "load"
  /\ LET g1 == ConstrainTensorGenerators(ConstrainWeightUpdates(Canonicalize(graph)))
     IN /\ graph' = g1
        /\ loaded' = g1
        /\ pc' = IF IsValid(graph) /\ IsValid(g1) THEN "simulate" ELSE "crashed"
  /\ passes' = <<"canonicalize", "constrain_weight_updates",
                 "constrain_tensor_generators">>
  /\ UNCHANGED <<todo, args, pt_node_order, simulated_mem_usage, mem_sequence,
                 peak_mem_usage, node_ordering, fragmentation, min_memory,
                 step, memory_budget, call, result, results>>

\* run_simulation, unless --skip-simulation.
RunSimulation ==
  /\ pc = "simulate"
  /\ pc' = "alloc"
  /\ IF args.skip_simulation
     THEN UNCHANGED <<simulated_mem_usage, result>>
     ELSE /\ simulated_mem_usage' = <<Simulate(graph, pt_node_order).peak>>
          /\ result' = result \cup {Key("simulated_mem_usage", 0)}
  /\ UNCHANGED <<todo, args, graph, loaded, passes, pt_node_order, mem_sequence,
                 peak_mem_usage, node_ordering, fragmentation, min_memory,
                 step, memory_budget, call, results>>

\* measure_pt_alloc_time, with --profile-alloc-time.
MeasurePtAllocTime ==
  /\ pc = "alloc"
  /\ pc' = "order"
  /\ IF args.profile_alloc_time
     THEN /\ mem_sequence' = MemSequence(graph, pt_node_order).seq
          /\ result' = result \cup {Key("profile.alloc_runtime", 0),
                                    Key("profile.alloc_count", 0)}
     ELSE UNCHANGED <<mem_sequence, result>>
  /\ UNCHANGED <<todo, args, graph, loaded, passes, pt_node_order,
                 simulated_mem_usage, peak_mem_usage, node_ordering,
                 fragmentation, min_memory, step, memory_budget, call, results>>

\* The outcomes of one scheduler call as the harness meets them: what
\* ComputeOptimalSchedule returns, or an exception out of the call.
Outcomes(g, a) == ComputeOptimalSchedule(g, a) \cup {Raised}

\* run_node_ordering with swapping left on.
NodeOrderingArgsSwapping == Args(TRUE, <<>>, FALSE, FALSE, 0, FALSE, <<>>)

\* run_node_ordering: the call and the assertions on what it returns.
NodeOrderingArgs == Args(FALSE, <<0>>, FALSE, FALSE, 0, FALSE, <<>>)

NodeOrderingAccepts(g, out) ==
  /\ out.status # "raised"
  /\ ValidTimeline(g, out.schedule)
  /\ ValidateNodeOrdering(g, out.schedule)
  /\ out.summary.peak_mem_usage = out.summary.required_memory
  /\ out.summary.total_data_swapped = 0

\* run_address_generation: the fragmentation is derived before the
\* assertions run, and divides by required_memory.
AddressGenerationArgs(node_order) ==
  Args(FALSE, <<0>>, FALSE, FALSE, 0, TRUE, node_order)

\* The fragmentation with the difference taken the other way round.
FragmentationReversed(summary) ==
  <<summary.peak_mem_usage - summary.required_memory, summary.required_memory>>

Fragmentation(summary) ==
  <<summary.required_memory - summary.peak_mem_usage, summary.required_memory>>

AddressGenerationAccepts(g, out) ==
  /\ out.status # "raised"
  /\ out.summary.required_memory # 0
  /\ ValidTimeline(g, out.schedule)
  /\ ValidateAddressAllocation(out.mem_loc)
  /\ out.summary.peak_mem_usage <= out.summary.required_memory
  /\ out.summary.total_data_swapped = 0

\* run_rematerialization and run_spilling: the overhead divides by the
\* summed time of the timed nodes.
RECURSIVE ModelRuntime(_, _)
ModelRuntime(g, N) ==
  IF N = {} THEN 0
  ELSE LET n == CHOOSE x \in N : TRUE IN g.time[n] + ModelRuntime(g, N \ {n})

\* run_rematerialization with the mem_limit left out of the call.
RematerializationArgsNoLimit(budget100) ==
  Args(FALSE, <<>>, TRUE, FALSE, budget100, FALSE, <<>>)

RematerializationArgs(budget100) ==
  Args(FALSE, <<>>, TRUE, TRUE, budget100, FALSE, <<>>)

RematerializationAccepts(g, out) ==
  /\ out.status # "raised"
  /\ ValidTimeline(g, out.schedule)
  /\ out.summary.peak_mem_usage = out.summary.required_memory
  /\ out.summary.total_data_swapped = 0
  /\ ModelRuntime(g, Nodes) # 0

SpillingArgs(budget100) ==
  Args(TRUE, <<>>, FALSE, TRUE, budget100, FALSE, <<>>)

SpillingAccepts(g, out) ==
  /\ out.status # "raised"
  /\ ValidTimeline(g, out.schedule)
  /\ out.summary.peak_mem_usage = out.summary.required_memory
  /\ ModelRuntime(g, Nodes) # 0

\* The budget of one sweep step, in hundredths of a byte:
\* peak_mem_usage * (1.0 - savings), raised to min_memory when below it.
\* The budget without the floor.
MemoryBudgetUnclamped(peak, s, minmem) == peak * (100 - s)

Clamped(peak, s, minmem) == peak * (100 - s) < minmem * 100

MemoryBudget(peak, s, minmem) ==
  IF Clamped(peak, s, minmem) THEN minmem * 100 ELSE peak * (100 - s)

\* The node-ordering stage of the main loop: run_node_ordering.
RunNodeOrdering ==
  /\ pc = "order"
  /\ IF args.skip_node_ordering
     THEN pc' = "addr" /\ UNCHANGED call
     ELSE IF args.skip_simulation
     THEN pc' = "crashed" /\ UNCHANGED call
     ELSE /\ pc' = "order_ret"
          /\ \E out \in Outcomes(graph, NodeOrderingArgs) :
               call' = [stage |-> "node_ordering", args |-> NodeOrderingArgs,
                        out |-> out,
                        accepted |-> NodeOrderingAccepts(graph, out)]
  /\ UNCHANGED <<todo, args, graph, loaded, passes, pt_node_order,
                 simulated_mem_usage, mem_sequence, peak_mem_usage,
                 node_ordering, fragmentation, min_memory, step, memory_budget,
                 result, results>>

\* What the main loop does with run_node_ordering's return: the saving it
\* prints divides by simulated_mem_usage; a failure skips the rest of the
\* configuration, its row included.
RecordNodeOrdering ==
  /\ pc = "order_ret"
  /\ call' = NoCall
  /\ IF call.accepted /\ simulated_mem_usage[1] # 0
     THEN /\ peak_mem_usage' = <<call.out.summary.peak_mem_usage>>
          /\ node_ordering' = ExtractNodeOrdering(call.out.schedule)
          /\ result' = result \cup {Key("node_ordering.runtime", 0),
                                    Key("node_ordering.peak_mem_usage", 0)}
          /\ pc' = "addr"
     ELSE /\ result' = result \cup {Key("node_ordering.error", 0)}
          /\ pc' = "done"
          /\ UNCHANGED <<peak_mem_usage, node_ordering>>
  /\ UNCHANGED <<todo, args, graph, loaded, passes, pt_node_order,
                 simulated_mem_usage, mem_sequence, fragmentation, min_memory,
                 step, memory_budget, results>>

\* The address-generation stage: run_address_generation.
RunAddressGeneration ==
  /\ pc = "addr"
  /\ IF ~args.generate_addresses
     THEN pc' = "remat" /\ UNCHANGED call
     ELSE IF args.skip_simulation \/ args.skip_node_ordering
     THEN pc' = "crashed" /\ UNCHANGED call
     ELSE /\ pc' = "addr_ret"
          /\ \E out \in Outcomes(graph, AddressGenerationArgs(node_ordering)) :
               call' = [stage |-> "address_generation",
                        args |-> AddressGenerationArgs(node_ordering),
                        out |-> out,
                        accepted |-> AddressGenerationAccepts(graph, out)]
  /\ UNCHANGED <<todo, args, graph, loaded, passes, pt_node_order,
                 simulated_mem_usage, mem_sequence, peak_mem_usage,
                 node_ordering, fragmentation, min_memory, step, memory_budget,
                 result, results>>

RecordAddressGeneration ==
  /\ pc = "addr_ret"
  /\ call' = NoCall
  /\ pc' = "remat"
  /\ IF call.accepted
     THEN /\ peak_mem_usage' = <<call.out.summary.required_memory>>
          /\ fragmentation' = Fragmentation(call.out.summary)
          /\ result' = result \cup {Key("address_generation.runtime", 0),
                                    Key("address_generation.fragmentation", 0),
                                    Key("address_generation.peak_mem_usage", 0)}
     ELSE /\ result' = result \cup {Key("address_generation.error", 0)}
          /\ UNCHANGED <<peak_mem_usage, fragmentation>>
  /\ UNCHANGED <<todo, args, graph, loaded, passes, pt_node_order,
                 simulated_mem_usage, mem_sequence, node_ordering, min_memory,
                 step, memory_budget, results>>

\* The set-up of a budget sweep (the Scheduler's construction and
\* ComputeMinimumMemoryRequired, for spilling also
\* constrain_relative_ordering) returns or raises.
SetupOutcomes == {"returned", "raised"}

\* The except clause of a budget sweep when the set-up raised: it formats
\* `savings`, a name only the sweep's for loop binds.  While no sweep of
\* the process has bound it (memory_budget is bound by the same step) the
\* clause itself raises NameError, which nothing catches; afterwards it
\* files the error under the savings left over from the last sweep.
SetupFailed(stage, errkey, next) ==
  /\ UNCHANGED <<min_memory, step>>
  /\ IF memory_budget = <<>>
     THEN /\ pc' = "crashed"
          /\ call' = [NoCall EXCEPT !.stage = stage, !.out = Raised]
          /\ UNCHANGED result
     ELSE /\ pc' = next
          /\ result' = result \cup {Key(errkey, memory_budget[1])}
          /\ UNCHANGED call

\* The rematerialization stage, freezing the chosen order into the graph
\* as the spilling stage does.
RematerializationBeginFreezing ==
  /\ pc = "remat"
  /\ IF ~args.rematerialization
     THEN pc' = "spill" /\ UNCHANGED <<graph, min_memory, step, call, result>>
     ELSE IF args.skip_simulation \/ args.skip_node_ordering
     THEN pc' = "crashed" /\ UNCHANGED <<graph, min_memory, step, call, result>>
     ELSE /\ graph' = ConstrainRelativeOrdering(graph, node_ordering)
          /\ \E o \in SetupOutcomes :
               IF o = "returned"
               THEN /\ min_memory' = <<ComputeMinimumMemoryRequired(graph')>>
                    /\ step' = 1
                    /\ pc' = "remat_sweep"
                    /\ UNCHANGED <<call, result>>
               ELSE SetupFailed("rematerialization.setup",
                                "rematerialization.error", "spill")
  /\ UNCHANGED <<todo, args, loaded, passes, pt_node_order, simulated_mem_usage,
                 mem_sequence, peak_mem_usage, node_ordering, fragmentation,
                 memory_budget, results>>

\* The rematerialization stage: the floor of the sweep.
RematerializationBegin ==
  /\ pc = "remat"
  /\ IF ~args.rematerialization
     THEN pc' = "spill" /\ UNCHANGED <<min_memory, step, call, result>>
     ELSE IF args.skip_simulation \/ args.skip_node_ordering
     THEN pc' = "crashed" /\ UNCHANGED <<min_memory, step, call, result>>
     ELSE \E o \in SetupOutcomes :
            IF o = "returned"
            THEN /\ min_memory' = <<ComputeMinimumMemoryRequired(graph)>>
                 /\ step' = 1
                 /\ pc' = "remat_sweep"
                 /\ UNCHANGED <<call, result>>
            ELSE SetupFailed("rematerialization.setup",
                             "rematerialization.error", "spill")
  /\ UNCHANGED <<todo, args, graph, loaded, passes, pt_node_order,
                 simulated_mem_usage, mem_sequence, peak_mem_usage,
                 node_ordering, fragmentation, memory_budget, results>>

\* One step of the rematerialization sweep: the budget, then
\* run_rematerialization.
RunRematerialization ==
  /\ pc = "remat_sweep"
  /\ pc' = "remat_ret"
  /\ LET budget == MemoryBudget(peak_mem_usage[1], Savings[step], min_memory[1])
     IN /\ memory_budget' = <<budget>>
        /\ \E out \in Outcomes(graph, RematerializationArgs(budget)) :
             call' = [stage |-> "rematerialization",
                      args |-> RematerializationArgs(budget), out |-> out,
                      accepted |-> RematerializationAccepts(graph, out)]
  /\ UNCHANGED <<todo, args, graph, loaded, passes, pt_node_order,
                 simulated_mem_usage, mem_sequence, peak_mem_usage,
                 node_ordering, fragmentation, min_memory, step, result,
                 results>>

\* The sweep goes on to the next savings unless the budget was raised to
\* the floor, the list is through or the run failed.
RecordRematerialization ==
  /\ pc = "remat_ret"
  /\ call' = NoCall
  /\ LET done == Clamped(peak_mem_usage[1], Savings[step], min_memory[1])
     IN IF call.accepted
        THEN /\ result' = result \cup
                   {Key("rematerialization.overhead", memory_budget[1]),
                    Key("rematerialization.runtime", memory_budget[1])}
             /\ IF done \/ step = Len(Savings)
                THEN pc' = "spill" /\ step' = 0
                ELSE pc' = "remat_sweep" /\ step' = step + 1
        ELSE /\ result' = result \cup
                   {Key("rematerialization.error", memory_budget[1])}
             /\ pc' = "spill"
             /\ step' = 0
  /\ UNCHANGED <<todo, args, graph, loaded, passes, pt_node_order,
                 simulated_mem_usage, mem_sequence, peak_mem_usage,
                 node_ordering, fragmentation, min_memory, memory_budget,
                 results>>

\* The spilling stage: the chosen order is frozen into the graph, then the
\* floor of the sweep is computed.  A set-up that raises does so before or
\* after the graph was changed.
SpillingBegin ==
  /\ pc = "spill"
  /\ IF ~args.spilling
     THEN pc' = "log" /\ UNCHANGED <<graph, min_memory, step, call, result>>
     ELSE IF args.skip_simulation \/ args.skip_node_ordering
     THEN pc' = "crashed" /\ UNCHANGED <<graph, min_memory, step, call, result>>
     ELSE \E o \in SetupOutcomes :
            IF o = "returned"
            THEN /\ graph' = ConstrainRelativeOrdering(graph, node_ordering)
                 /\ min_memory' = <<ComputeMinimumMemoryRequired(graph')>>
                 /\ step' = 1
                 /\ pc' = "spill_sweep"
                 /\ UNCHANGED <<call, result>>
            ELSE /\ graph' \in {graph,
                                ConstrainRelativeOrdering(graph, node_ordering)}
                 /\ SetupFailed("spilling.setup", "spilling.error", "log")
  /\ UNCHANGED <<todo, args, loaded, passes, pt_node_order, simulated_mem_usage,
                 mem_sequence, peak_mem_usage, node_ordering, fragmentation,
                 memory_budget, results>>

\* One step of the spilling sweep: the budget, then run_spilling.
RunSpilling ==
  /\ pc = "spill_sweep"
  /\ pc' = "spill_ret"
  /\ LET budget == MemoryBudget(peak_mem_usage[1], Savings[step], min_memory[1])
     IN /\ memory_budget' = <<budget>>
        /\ \E out \in Outcomes(graph, SpillingArgs(budget)) :
             call' = [stage |-> "spilling", args |-> SpillingArgs(budget),
                      out |-> out, accepted |-> SpillingAccepts(graph, out)]
  /\ UNCHANGED <<todo, args, graph, loaded, passes, pt_node_order,
                 simulated_mem_usage, mem_sequence, peak_mem_usage,
                 node_ordering, fragmentation, min_memory, step, result,
                 results>>

RecordSpilling ==
  /\ pc = "spill_ret"
  /\ call' = NoCall
  /\ LET done == Clamped(peak_mem_usage[1], Savings[step], min_memory[1])
     IN IF call.accepted
        THEN /\ result' = result \cup
                   {Key("spilling.overhead", memory_budget[1]),
                    Key("spilling.runtime", memory_budget[1])}
             /\ IF done \/ step = Len(Savings)
                THEN pc' = "log" /\ step' = 0
                ELSE pc' = "spill_sweep" /\ step' = step + 1
        ELSE /\ result' = result \cup {Key("spilling.error", memory_budget[1])}
             /\ pc' = "log"
             /\ step' = 0
  /\ UNCHANGED <<todo, args, graph, loaded, passes, pt_node_order,
                 simulated_mem_usage, mem_sequence, peak_mem_usage,
                 node_ordering, fragmentation, min_memory, memory_budget,
                 results>>

\* The row of the configuration is appended to the results and logged.
LogResult ==
  /\ pc = "log"
  /\ results' = Append(results, result)
  /\ pc' = "done"
  /\ UNCHANGED <<todo, args, graph, loaded, passes, pt_node_order,
                 simulated_mem_usage, mem_sequence, peak_mem_usage,
                 node_ordering, fragmentation, min_memory, step, memory_budget,
                 call, result>>

Next ==
  \/ LoadModel
  \/ RunSimulation
  \/ MeasurePtAllocTime
  \/ RunNodeOrdering
  \/ RecordNodeOrdering
  \/ RunAddressGeneration
  \/ RecordAddressGeneration
  \/ RematerializationBegin
  \/ RunRematerialization
  \/ RecordRematerialization
  \/ SpillingBegin
  \/ RunSpilling
  \/ RecordSpilling
  \/ LogResult

Spec == Init /\ [][Next]_vars

\* --------------------------------------------------- the batch sweep
\* Two small models for a sweep over several configurations.  The chain:
\* three operators, each producing one buffer the next operator consumes.
\* The join: two independent branches, each producing one buffer, both
\* consumed by a join operator with an output of its own.
ChainEdgeBytes == 100
BranchEdgeBytes == 1000
JoinOutputBytes == 24

ChainModel ==
  [edges |-> {Edge(1, 1, {2}, ChainEdgeBytes), Edge(2, 2, {3}, ChainEdgeBytes),
              Edge(3, 3, {4}, ChainEdgeBytes)},
   time  |-> [n \in Nodes |-> 1]]

JoinModel ==
  [edges |-> {Edge(1, 1, {3}, BranchEdgeBytes), Edge(2, 2, {3}, BranchEdgeBytes),
              Edge(3, 3, {4}, JoinOutputBytes)},
   time  |-> [n \in Nodes |-> 1]]

SweepModels == {ChainModel, JoinModel}

\* The for loops over model, mode and batch size: the next iteration starts
\* a fresh row and loads its model; every other name of the loop body keeps
\* the value the last configuration left in it.
NextConfiguration ==
  /\ pc = "done"
  /\ Len(todo) > 1
  /\ todo' = Tail(todo)
  /\ pc' = "load"
  /\ graph' \in SweepModels
  /\ loaded' = [edges |-> {}, time |-> [n \in Nodes |-> 0]]
  /\ passes' = <<>>
  /\ result' = {Key("model", todo[2])}
  /\ UNCHANGED <<args, pt_node_order, simulated_mem_usage, mem_sequence,
                 peak_mem_usage, node_ordering, fragmentation, min_memory,
                 step, memory_budget, call, results>>

SweepInit ==
  /\ pc = "load"
  /\ args \in Switches
  /\ graph \in SweepModels
  /\ loaded = [edges |-> {}, time |-> [n \in Nodes |-> 0]]
  /\ passes = <<>>
  /\ pt_node_order = [i \in 1..Cardinality(Nodes) |-> i]
  /\ simulated_mem_usage = <<>>
  /\ mem_sequence = <<>>
  /\ peak_mem_usage = <<>>
  /\ node_ordering = <<>>
  /\ fragmentation = <<>>
  /\ min_memory = <<>>
  /\ step = 0
  /\ memory_budget = <<>>
  /\ call = NoCall
  /\ result = {Key("model", 1)}
  /\ results = <<>>
  /\ todo = [i \in 1..MaxConfigs |-> i]

SweepNext == Next \/ NextConfiguration

SweepSpec == SweepInit /\ [][SweepNext]_vars

\* =============================================================== claims

Pos(order, n) == CHOOSE i \in 1..Len(order) : order[i] = n
LastUse(order, e) == SetMax({Pos(order, n) : n \in e.snks})

RECURSIVE Signed(_, _)
Signed(lst, sign) ==
  IF lst = <<>> THEN <<>>
  ELSE <<sign * Head(lst).size>> \o Signed(Tail(lst), sign)

RECURSIVE Events(_, _, _, _)
Events(g, order, i, allocFirst) ==
  IF i > Len(order) THEN <<>>
  ELSE LET plus  == Signed(ById({e \in Sized(g) : e.src = order[i]}), 1)
           minus == Signed(ById({e \in Sized(g) : LastUse(order, e) = i}), -1)
       IN (IF allocFirst THEN plus \o minus ELSE minus \o plus)
            \o Events(g, order, i + 1, allocFirst)

RECURSIVE MaxPrefixSum(_, _, _, _)
MaxPrefixSum(ev, k, cur, top) ==
  IF k > Len(ev) THEN top
  ELSE MaxPrefixSum(ev, k + 1, cur + ev[k], Max2(top, cur + ev[k]))

\* C4, as amended: the Simulator's peak on the importer's order equals the
\* maximum prefix sum of the signed edge events taken with the productions
\* of a step before its releases, and equals the largest number of bytes
\* held at once when an allocator replays measure_pt_alloc_time's
\* mem_sequence.
C4_SimulatedPeakIsMaxPrefixSum ==
  (simulated_mem_usage # <<>> /\ pc \notin {"load", "simulate", "alloc"}) =>
     /\ simulated_mem_usage[1]
          = MaxPrefixSum(Events(loaded, pt_node_order, 1, TRUE), 1, 0, 0)
     /\ args.profile_alloc_time =>
          simulated_mem_usage[1] = AllocPeak(loaded, mem_sequence)

C4_Witness ==
  /\ pc = "order"
  /\ args.profile_alloc_time
  /\ simulated_mem_usage # <<>>
  /\ simulated_mem_usage[1] > MaxSize
  /\ Len(mem_sequence) > 4

\* C4, as stated: the peak is the maximum prefix sum however the events of
\* one step are ordered, so also with the releases of a step first.
C4_TieBreakingIndependent ==
  (simulated_mem_usage # <<>> /\ pc \notin {"load", "simulate", "alloc"}) =>
     /\ simulated_mem_usage[1]
          = MaxPrefixSum(Events(loaded, pt_node_order, 1, TRUE), 1, 0, 0)
     /\ simulated_mem_usage[1]
          = MaxPrefixSum(Events(loaded, pt_node_order, 1, FALSE), 1, 0, 0)

FeasibleAt(g, a) == ComputeOptimalSchedule(g, a) # {Infeasible}

\* C6, as amended: with M the value of ComputeMinimumMemoryRequired, a call
\* with spilling enabled is feasible at mem_limit = M, and a call with
\* spilling or with rematerialization enabled is infeasible at mem_limit =
\* M - 1 byte (rematerialization alone may be infeasible at M as well).
C6_MinimumMemoryIsSpillingThreshold ==
  (pc \in {"remat_sweep", "spill_sweep"} /\ step = 1) =>
     LET M == min_memory[1]
     IN /\ FeasibleAt(graph, SpillingArgs(100 * M))
        /\ ~FeasibleAt(graph, SpillingArgs(100 * M - 100))
        /\ ~FeasibleAt(graph, RematerializationArgs(100 * M - 100))

C6_Witness ==
  /\ pc = "remat_sweep"
  /\ step = 1
  /\ min_memory[1] > 0
  /\ min_memory[1] < peak_mem_usage[1]
  /\ FeasibleAt(graph, RematerializationArgs(100 * min_memory[1]))

\* C6, as stated: M is an exact threshold of feasibility for a call with
\* rematerialization enabled as well as for one with spilling enabled.
C6_MinimumMemoryIsExactThreshold ==
  (pc \in {"remat_sweep", "spill_sweep"} /\ step = 1) =>
     LET M == min_memory[1]
     IN /\ FeasibleAt(graph, SpillingArgs(100 * M))
        /\ FeasibleAt(graph, RematerializationArgs(100 * M))
        /\ ~FeasibleAt(graph, SpillingArgs(100 * M - 100))
        /\ ~FeasibleAt(graph, RematerializationArgs(100 * M - 100))

\* C7: in both budget sweeps the mem_limit of every call is the budget of
\* the step, and it is never below the min_memory computed for the graph.
C7_BudgetNeverBelowMinimum ==
  call.stage \in {"rematerialization", "spilling"} =>
     /\ call.args.limited
     /\ memory_budget = <<call.args.mem_limit100>>
     /\ call.args.mem_limit100 >= 100 * min_memory[1]

C7_Witness ==
  /\ pc = "remat_ret"
  /\ step > 1
  /\ peak_mem_usage[1] * (100 - Savings[step]) < 100 * min_memory[1]
  /\ call.args.mem_limit100 = 100 * min_memory[1]

MinPlainPeak(g) == SetMin({TimelinePeak(g, s) : s \in Orders(g)})

ReExecuted(sched) ==
  {sched[i] : i \in {k \in 1..Len(sched) : \E j \in 1..(k - 1) : sched[j] = sched[k]}}

BelowPlainPeak ==
  /\ call.stage = "rematerialization"
  /\ call.out.status # "raised"
  /\ call.args.mem_limit100 < 100 * MinPlainPeak(graph)
  /\ call.args.mem_limit100 >= 100 * min_memory[1]

C10_GraphChangesOnlyForSpilling ==
  pc # "load" =>
     /\ passes = <<"canonicalize", "constrain_weight_updates",
                   "constrain_tensor_generators">>
     /\ \/ graph = loaded
        \/ /\ args.spilling
           /\ pc \in {"spill_sweep", "spill_ret", "log", "done", "crashed"}
           /\ graph = ConstrainRelativeOrdering(loaded, node_ordering)

C10_Witness ==
  /\ pc = "spill_sweep"
  /\ graph # loaded
  /\ \E k \in result : k.key = "rematerialization.overhead"
  /\ \E k \in result : k.key = "address_generation.runtime"

\* C10, as stated: once load_model has returned, no stage changes the Graph
\* IR.
C10_GraphNeverChangesAfterLoad ==
  pc # "load" => graph = loaded

\* C11, as stated: in a sweep over several configurations, a failure of a
\* scheduling stage (node ordering, address generation, rematerialization,
\* spilling) of one configuration never aborts the sweep: the main loop
\* never ends on an exception out of a stage while configurations are
\* still to be loaded.
C11_StageFailureNeverAbortsSweep ==
  (pc = "crashed" /\ Len(todo) > 1) => call.out.status # "raised"

\* The peak of the allocator replay (measure_pt_alloc_time's walk and one
\* pass over its mem_sequence) of a node order.
ReplayPeak(g, order) == AllocPeak(g, MemSequence(g, order).seq)

\* C12, as amended: for the join model (two independent branches, each
\* producing one 1000-byte edge, both consumed by the join node) every
\* order the plain-mode optimizer returns peaks at 2000 bytes plus the join
\* node's output: both branch buffers are live while the join runs.  The
\* allocator replay of the returned order peaks at the same value.
C12_JoinPeakHoldsBothBranches ==
  (pc = "order_ret" /\ graph = JoinModel /\ call.out.status = "ok") =>
     /\ call.out.summary.peak_mem_usage = 2 * BranchEdgeBytes + JoinOutputBytes
     /\ ReplayPeak(graph, call.out.schedule) =
           2 * BranchEdgeBytes + JoinOutputBytes

C12_Witness ==
  /\ pc = "order_ret"
  /\ graph = JoinModel
  /\ call.out.status = "ok"
  /\ call.out.schedule = <<2, 1, 3, 4>>
  /\ call.out.summary.peak_mem_usage = 2 * BranchEdgeBytes + JoinOutputBytes

\* C12, as stated: the plain-mode optimizer returns an order for the join
\* model whose peak is 1000 bytes plus the join node's output, not 2000.
C12_JoinPeakHoldsOneBranch ==
  (pc = "order_ret" /\ graph = JoinModel /\ call.out.status = "ok") =>
     call.out.summary.peak_mem_usage = BranchEdgeBytes + JoinOutputBytes

\* C13, as amended: for the chain model (three nodes, each producing one
\* 100-byte edge the next node consumes) the plain-mode peak, the
\* Simulator's peak on the chain order and the peak of the allocator replay
\* of that order are all 200 bytes: while a node runs, its input and its
\* output are both live.
C13_ChainPeakIsTwoBuffers ==
  (pc = "order_ret" /\ graph = ChainModel /\ call.out.status = "ok") =>
     /\ call.out.summary.peak_mem_usage = 2 * ChainEdgeBytes
     /\ simulated_mem_usage = <<2 * ChainEdgeBytes>>
     /\ ReplayPeak(graph, pt_node_order) = 2 * ChainEdgeBytes

C13_Witness ==
  /\ pc = "order_ret"
  /\ graph = ChainModel
  /\ call.out.status = "ok"
  /\ call.out.schedule = pt_node_order
  /\ simulated_mem_usage = <<2 * ChainEdgeBytes>>

\* C13, as stated: for the chain model the plain-mode peak and the
\* Simulator's peak on the chain order are 100 bytes, one buffer at most
\* being live.
C13_ChainPeakIsOneBuffer ==
  (pc = "order_ret" /\ graph = ChainModel /\ call.out.status = "ok") =>
     /\ call.out.summary.peak_mem_usage = ChainEdgeBytes
     /\ simulated_mem_usage = <<ChainEdgeBytes>>

\* edge_ref_counts and mem_sequence once the walk has visited the first k
\* nodes of the order, and the number of times a buffer is in a sequence.
MemAfter(g, order, k) ==
  MemWalk(g, SubSeq(order, 1, k), 1, [rc |-> <<>>, seq |-> <<>>])

Occurrences(seq, i) == Cardinality({k \in 1..Len(seq) : seq[k] = i})

\* C14: in the walk of measure_pt_alloc_time over the traced node order,
\* the reference count of each non-zero-size edge starts at its number of
\* sinks, is never negative and reaches zero exactly once; the edge's
\* buffer is in mem_sequence exactly twice, first at its producer and then
\* at its last sink; zero-size edges get no count and no entry; and a pass
\* over mem_sequence leaves no buffer allocated.
C14_EdgeCountsReachZeroOnce ==
  (pc = "order" /\ args.profile_alloc_time) =>
     LET N == Len(pt_node_order)
         at(k) == MemAfter(graph, pt_node_order, k)
     IN /\ mem_sequence = at(N).seq
        /\ \A e \in graph.edges :
             LET p == Pos(pt_node_order, e.src)
                 l == LastUse(pt_node_order, e)
             IN IF e.size > 0
                THEN /\ e.id \notin DOMAIN at(p - 1).rc
                     /\ at(p).rc[e.id] = Cardinality(e.snks)
                     /\ \A k \in p..N : at(k).rc[e.id] >= 0
                     /\ {k \in p..N : at(k).rc[e.id] = 0 /\ at(k - 1).rc[e.id] > 0}
                           = {l}
                     /\ Occurrences(mem_sequence, e.id) = 2
                     /\ Occurrences(at(p - 1).seq, e.id) = 0
                     /\ Occurrences(at(p).seq, e.id) = 1
                     /\ Occurrences(at(l - 1).seq, e.id) = 1
                     /\ Occurrences(at(l).seq, e.id) = 2
                ELSE /\ e.id \notin DOMAIN at(N).rc
                     /\ Occurrences(mem_sequence, e.id) = 0
        /\ RunPass(graph, mem_sequence, 1, {}, 0).held = {}

C14_Witness ==
  /\ pc = "order"
  /\ args.profile_alloc_time
  /\ \E e \in graph.edges : e.size > 0 /\ Cardinality(e.snks) = 2
  /\ \E e \in graph.edges : e.size = 0
  /\ Len(mem_sequence) = 2 * Cardinality(Sized(graph))
  /\ Cardinality(Sized(graph)) = 3

\* The rows of the results list that belong to configuration c.
RowsOf(c) == {i \in 1..Len(results) : Key("model", c) \in results[i]}

\* C15, as stated: every configuration whose model was loaded contributes
\* exactly one row to the results list, whether its stages succeeded or
\* failed; a failed node ordering shows up in that row as
\* node_ordering.error; and address generation, rematerialization and
\* spilling only run after node ordering succeeded in the same
\* configuration.
C15_EveryConfigurationLogsOneRow ==
  /\ pc = "done" =>
        /\ \A c \in 1..Head(todo) : Cardinality(RowsOf(c)) = 1
        /\ Key("node_ordering.error", 0) \in result =>
              \E i \in RowsOf(Head(todo)) : results[i] = result
  /\ call.stage \in {"address_generation", "rematerialization", "spilling"} =>
        /\ Key("node_ordering.peak_mem_usage", 0) \in result
        /\ Key("node_ordering.error", 0) \notin result

====
